---- MODULE Spec2Model ----
(***************************************************************************)
(* Lodgify -> Monday booking sync (src/app.py).                            *)
(*                                                                         *)
(* The model covers the two request handlers that write to the board,      *)
(* webhook_lodgify and lodgify_sync_all, the upsert core _safe_upsert and  *)
(* the Monday board as the MondayClient calls see it.  Every remote call   *)
(* is one atomic step whose reply (success, HTTP failure, GraphQL error)   *)
(* is chosen by the environment.  Requests run in separate worker          *)
(* processes and share nothing but the board.                              *)
(*                                                                         *)
(* Spec follows one worker, SpecConc two workers receiving webhooks.       *)
(* SpecClient follows the two API clients call by call, and SpecMap        *)
(* follows map_booking_to_monday and the write of its column values for    *)
(* one booking from day to day.                                            *)
(***************************************************************************)
EXTENDS Integers, Sequences, FiniteSets, TLC

(* ------------------------------ bounds -------------------------------- *)

\* Records the board can hold; create_item is not issued beyond it.
MaxItems == 2
\* Largest page size (limit) a batch request asks for.
MaxLimit == 2
\* Elapsed-time ticks a batch request can accumulate (time.time() - t0).
MaxEl == 1
\* Largest max_sec a batch request is given; kept below MaxEl.
MaxBudget == 0

\* Remote calls the client layer is followed through on its own.
MaxCalls == 2

\* Calendar days the dates of a booking fall on, 1..MaxDay; today runs from
\* day 1 to the day after MaxDay.
MaxDay == 3

\* Worker processes serving requests at the same time.
Procs == {"w1", "w2"}

(* -------------------------- program constants ------------------------- *)

\* items_page_by_column_values(... limit: 2)
LookupLimit == 2

(* ------------------------------ payloads ------------------------------ *)

\* A booking document.  kind "scalar" is a JSON value that is not an object.
\* A field holding "" is absent or falsy (None, "", 0): Python's `or` chain
\* treats them alike.  guest: "" absent, "obj" an object, "str" a string.
Bk(kind, id, booking_id, code, guest, status) ==
    [kind |-> kind, id |-> id, booking_id |-> booking_id, code |-> code,
     guest |-> guest, status |-> status]

BkBooked    == Bk("object", "b1", "", "", "obj", "booked")
BkCancelled == Bk("object", "", "b1", "", "obj", "cancelled")
BkNoId      == Bk("object", "", "", "", "obj", "booked")
BkBlankId   == Bk("object", " ", "", "", "obj", "booked")
BkBadGuest  == Bk("object", "", "", "b1", "str", "booked")
BkScalar    == Bk("scalar", "", "", "", "", "")
\* {}: the empty object, falsy in Python.
BkEmpty     == Bk("empty", "", "", "", "", "")
\* {"booking": {}} read as a booking: an object with none of the known fields.
BkWrapper   == Bk("object", "", "", "", "", "booked")

\* Booking objects the source can hold or a webhook can carry.
Payloads == {BkBooked, BkCancelled, BkNoId, BkBlankId, BkBadGuest}

\* The source's booking list, in the order list_bookings pages through it.
Feed == << BkBooked, BkBadGuest, BkNoId >>

\* Booking ids the payloads can yield.
ExtIds == {"", "b1"}

(* ------------------------------ helpers ------------------------------- *)

Min(a, b) == IF a < b THEN a ELSE b

\* str.strip() on the strings of the model.
Strip(s) == IF s = " " THEN "" ELSE s

\* x or y
Or(x, y) == IF x # "" THEN x ELSE y

\* label_for_status: STATUS_LABELS.get(key, STATUS_DEFAULT)
label_for_status(raw) ==
    CASE raw \in {"confirmed", "booked"} -> "Confirmed"
      [] raw = "paid" -> "Paid"
      [] raw = "pending" -> "Pending"
      [] raw \in {"cancelled", "canceled"} -> "Cancelled"
      [] OTHER -> "Pending"

\* res_id = str(bk.get("id") or bk.get("booking_id") or bk.get("code") or "").strip()
ResId(bk) == Strip(Or(Or(bk.id, bk.booking_id), bk.code))

\* map_booking_to_monday raises AttributeError when bk has no .get (it is not
\* an object) or when guest is a non-empty value without .get.
MapRaises(bk) == bk.kind # "object" \/ bk.guest = "str"

\* The exception handler of the batch loop evaluates bk.get("id") itself.
HandlerRaises(bk) == bk.kind # "object"

\* The mapper without line 455: the reservation-id column is never written.
ColumnValuesNoKey(bk) == [rid |-> "", status |-> label_for_status(bk.status)]

\* put(cv, "reservation_id", res_id) and put(cv, "status", {"label": ...}):
\* the two columns of column_values the model keeps.
ColumnValues(bk) == [rid |-> ResId(bk), status |-> label_for_status(bk.status)]

\* map_booking_to_monday's return value, for a booking it does not raise on.
\* item_name, the display name of a created item, is left out: the board of
\* the model keeps no names.
Mapped(bk) == [external_id |-> ResId(bk), column_values |-> ColumnValues(bk)]

NoMapped == [external_id |-> "", column_values |-> [rid |-> "", status |-> ""]]

(* --------------------------- values and dates ------------------------- *)

\* Python values of the mapper, told apart by their type: None, a string, a
\* number, the string "YYYY-MM-DD" of calendar day d, the date object of day d.
None == [none |-> TRUE]
Str(s) == [str |-> s]
Num(n) == [num |-> n]
IsoStr(d) == [iso |-> d]
Date(d) == [day |-> d]

\* A raw date value of a payload.  form: "absent" (no key, None or ""), "bad"
\* (a string that is no date), "iso" ("2024-05-02"), "stamp"
\* ("2024-05-02T15:00:00Z"), "dict" ({"time": "2024-05-02T15:00:00Z"}).
RawDate(form, day) == [form |-> form, day |-> day]

NoDate == RawDate("absent", 0)
BadDate == RawDate("bad", 0)

RawDates ==
    {NoDate, BadDate} \cup {RawDate("iso", d) : d \in 1..MaxDay}
        \cup {RawDate("stamp", 2), RawDate("dict", 2)}

\* iso_date: None for an absent or unparseable value, else the date part of
\* the value as "YYYY-MM-DD".
iso_date(v) == IF v.form \in {"absent", "bad"} THEN None ELSE IsoStr(v.day)

\* parse_date: None for None or "", else strptime(s, "%Y-%m-%d").date().
parse_date(s) == IF s = None THEN None ELSE Date(s.iso)

\* today_iso, on calendar day `today`.
today_iso(today) == IsoStr(today)

\* days_between: None unless both dates parse, else (db - da).days.
days_between(a, b) ==
    LET da == parse_date(a)
        db == parse_date(b)
    IN IF da = None \/ db = None THEN None ELSE Num(db.day - da.day)

\* safe_float on a raw amount: a number, else (None, a string that is no
\* number) the default 0.0.
safe_float(x) == IF "num" \in DOMAIN x THEN x ELSE Num(0)

\* put without the test of the value: None is written like any value.
put_any(value) == {value}

\* put: the column is written unless the value is None; a column is the set
\* of values written to it, {} when it is left out of column_values.
put(value) == IF value = None THEN {} ELSE {value}

(* --------------------------- the mapper in full ----------------------- *)

\* Source strings are sequences of words; "" is the empty sequence.
Lower(w) ==
    CASE w = "Airbnb" -> "airbnb"
      [] w = "Booking.com" -> "booking.com"
      [] w = "Direct" -> "direct"
      [] OTHER -> w

\* _norm: (s or "").strip().lower()
norm(s) == [i \in 1..Len(s) |-> Lower(s[i])]

\* "kw" in blob
Has(blob, kw) == \E i \in 1..Len(blob) : blob[i] = kw

\* label_for_source: the first keyword of the table found in the two texts.
label_for_source(raw_source, raw_source_text) ==
    LET blob == norm(raw_source) \o norm(raw_source_text)
    IN IF Has(blob, "booking.com") THEN Str("Booking.com")
       ELSE IF Has(blob, "airbnb") THEN Str("Airbnb")
       ELSE IF Has(blob, "expedia") THEN Str("Expedia")
       ELSE IF Has(blob, "vrbo") THEN Str("Vrbo")
       ELSE IF Has(blob, "direct") THEN Str("Direct")
       ELSE None

DEFAULT_ALLOWED_SOURCE_LABELS == {"Booking.com", "Airbnb", "Expedia", "Vrbo", "Direct"}

\* ALLOWED_SOURCE_LABELS: the default, or what SOURCE_LABELS_ALLOWED names.
AllowedSets == {DEFAULT_ALLOWED_SOURCE_LABELS, {"Booking.com"}}

\* compute_stay_status_label with the check-out day counted as in house.
compute_stay_status_label_thru(check_in, check_out, now) ==
    LET today == parse_date(today_iso(now))
        ci == parse_date(check_in)
        co == parse_date(check_out)
    IN IF ci = None \/ co = None \/ today = None THEN None
       ELSE IF today.day < ci.day THEN Str("Upcoming")
       ELSE IF ci.day <= today.day /\ today.day <= co.day THEN Str("In house")
       ELSE Str("Completed")

\* compute_stay_status_label on calendar day `now`.
compute_stay_status_label(check_in, check_out, now) ==
    LET today == parse_date(today_iso(now))
        ci == parse_date(check_in)
        co == parse_date(check_out)
    IN IF ci = None \/ co = None \/ today = None THEN None
       ELSE IF today.day < ci.day THEN Str("Upcoming")
       ELSE IF ci.day <= today.day /\ today.day < co.day THEN Str("In house")
       ELSE Str("Completed")

\* A booking with the further fields the mapper reads.  arrival is
\* bk.get("arrival") or bk.get("check_in"), departure likewise; rental is ""
\* (absent), "obj" or "str"; rooms is "" (absent or empty), "objs" (a list of
\* objects without key_code), "strs" (a list of strings) or "num" (a number).
Stay(bk, arrival, departure, canceled_at, source, source_text) ==
    bk @@ [arrival |-> arrival, departure |-> departure,
           created_at |-> NoDate, updated_at |-> NoDate, canceled_at |-> canceled_at,
           source |-> source, source_text |-> source_text,
           rental |-> "", rooms |-> "", total_amount |-> None]

Sources == {<< >>, << "Airbnb" >>, << "Manual" >>}
SourceTexts == {<< >>, << "Booking.com", "via", "Airbnb" >>}

\* Well-formed bookings.
WellFormed ==
    {Stay(bk, a, d, c, src, txt) :
        bk \in {BkBooked, BkCancelled}, a \in RawDates, d \in RawDates,
        c \in {NoDate, RawDate("iso", 1)}, src \in Sources, txt \in SourceTexts}

\* Bookings with one field of another shape or value.
Variants(b) ==
    {[b EXCEPT !.guest = "str"], [b EXCEPT !.rental = "str"], [b EXCEPT !.rental = "obj"],
     [b EXCEPT !.rooms = "strs"], [b EXCEPT !.rooms = "num"], [b EXCEPT !.rooms = "objs"],
     [b EXCEPT !.total_amount = Str("n/a")], [b EXCEPT !.total_amount = Num(120)],
     [b EXCEPT !.created_at = RawDate("iso", 1), !.updated_at = BadDate]}

Bookings ==
    WellFormed \cup
    UNION {Variants(Stay(BkBooked, RawDate("iso", 1), RawDate("iso", 2), NoDate, src, << >>)) :
              src \in Sources}

\* map_booking_to_monday raises: MapRaises, or rental is no object (line 173),
\* or rooms[0] is no object or rooms cannot be indexed (lines 206, 439-440).
Raises(b) == MapRaises(b) \/ b.rental = "str" \/ b.rooms \in {"strs", "num"}

\* Lines 418-501: the columns written besides reservation_id and status.
\* Each column is the set of values put under it.
MoreColumns(bk, now, allowed) ==
    LET check_in == iso_date(bk.arrival)
        check_out == iso_date(bk.departure)
        nights == days_between(check_in, check_out)
        source_label == label_for_source(bk.source, bk.source_text)
        dropdown == source_label # None /\ source_label.str \in allowed
        st_blob == bk.source \o bk.source_text
        stay_label == compute_stay_status_label(check_in, check_out, now)
        key_code == IF bk.rooms = "" THEN None ELSE Str("")
    IN [check_in |-> put([date |-> check_in]),
        check_out |-> put([date |-> check_out]),
        nights |-> put(nights),
        source |-> IF dropdown THEN put([labels |-> << source_label.str >>]) ELSE {},
        source_text |-> IF dropdown THEN {}
                        ELSE put(IF st_blob = << >> THEN None ELSE [text |-> st_blob]),
        last_sync |-> put([date |-> today_iso(now)]),
        stay_status |-> IF stay_label # None THEN put([label |-> stay_label.str]) ELSE {},
        total |-> put(safe_float(bk.total_amount)),
        key_code |-> put(key_code),
        created_at |-> put([date |-> iso_date(bk.created_at)]),
        updated_at |-> put([date |-> iso_date(bk.updated_at)]),
        canceled_at |-> put([date |-> iso_date(bk.canceled_at)])]

\* map_booking_to_monday on calendar day `now`, for a booking it does not
\* raise on.
map_booking_to_monday(bk, now, allowed) ==
    [external_id |-> ResId(bk),
     column_values |-> ColumnValues(bk) @@ MoreColumns(bk, now, allowed)]

(* --------------------------- upsert results --------------------------- *)

\* UpsertResult; item_id 0 is None, error "" is None, kind "none" is unset.
Result(kind, ok, item_id, created, updated, error) ==
    [kind |-> kind, ok |-> ok, item_id |-> item_id, created |-> created,
     updated |-> updated, error |-> error]

NoResult   == Result("none", FALSE, 0, FALSE, FALSE, "")
Created(i) == Result("upsert", TRUE, i, TRUE, FALSE, "")
\* Line 674 without item_id=item_id.
UpdatedNoId(i) == Result("upsert", TRUE, 0, FALSE, TRUE, "")
Updated(i) == Result("upsert", TRUE, i, FALSE, TRUE, "")
Failed(e)  == Result("upsert", FALSE, 0, FALSE, FALSE, e)
\* The dict the batch loop records when mapping raised.
Raised     == Result("exception", FALSE, 0, FALSE, FALSE, "AttributeError")

(* ------------------------------- state -------------------------------- *)

VARIABLES
    items,   \* the board: item id -> [cols, state], ids are 1..Len(items)
    req,     \* per worker: the request it is serving and where it is in it
    hist,    \* per booking id: what has happened to it so far (observation only)
    calls,   \* the client layer on its own: the remote calls made, latest last
    mp       \* the mapper on its own: a booking, the day, what was mapped and written

vars == << items, req, hist, calls, mp >>

\* What the request handlers leave alone.
aside == << calls, mp >>

\* Python None for `found`.
NoFound == [id |-> 0, state |-> ""]

NoResp == [status |-> 0, ok |-> FALSE, count |-> 0, processed |-> 0, next_skip |-> 0,
           result |-> NoResult, error |-> ""]

\* A worker that serves no request.  Fields from `pre` on are observations of
\* the run (what the board held at the lookup, which calls failed, the last
\* elapsed time compared with max_sec, the call of the upsert that raised,
\* the items the lookup's page held); no action's guard reads them.
IdleReq ==
    [pc |-> "idle", kind |-> "none", mapped |-> NoMapped, found |-> NoFound,
     res |-> NoResult, skip |-> 0, max_sec |-> 0,
     bookings |-> << >>, idx |-> 0, processed |-> 0, results |-> << >>, el |-> 0,
     resp |-> NoResp,
     pre |-> {}, n0 |-> 0, lookupMissing |-> FALSE, restoreFailed |-> FALSE,
     checked |-> -1, cut |-> FALSE, nth |-> 0, failed |-> "", seen |-> {}]

\* Per booking id: the item id its first successful upsert returned (0: none
\* yet), and whether a remote call of one of its upserts failed or a board
\* user archived one of its items.
NoHist == [first |-> 0, fail |-> FALSE]

\* The mapper's stand-alone state before any booking has been given to it.
IdleMp == [phase |-> "idle"]

Init ==
    /\ items = << >>
    /\ req = [p \in Procs |-> IdleReq]
    /\ hist = [e \in ExtIds |-> NoHist]
    /\ calls = << >>
    /\ mp = IdleMp

(* ------------------------------ the board ----------------------------- *)

ItemIds == 1..Len(items)

\* Items whose reservation_id column text equals value, whatever their state.
Matching(value) == {i \in ItemIds : items[i].cols.rid = value}

ActiveOf(value) == {i \in Matching(value) : items[i].state = "active"}

\* The pages items_page_by_column_values(limit: 2) can answer with: up to
\* LookupLimit of the matching items, in an order the board chooses.
LookupPages(value) ==
    LET M == Matching(value)
        k == Min(Cardinality(M), LookupLimit)
    IN {s \in [1..k -> M] : \A a, b \in 1..k : a # b => s[a] # s[b]}

IsActive(i) == items[i].state = "active"

\* find_item_by_external_id without lines 302-303: the first item of the page.
PickFirst(page) ==
    IF page = << >> THEN NoFound
    ELSE [id |-> page[1], state |-> items[page[1]].state]

\* find_item_by_external_id on a page: None for no items, else the first
\* active item, else the first item.
PickFound(page) ==
    IF page = << >> THEN NoFound
    ELSE LET active == SelectSeq(page, IsActive)
             first == IF active # << >> THEN active[1] ELSE page[1]
         IN [id |-> first, state |-> items[first].state]

(* ---------------------------- observations ---------------------------- *)

UpsertPcs == {"find", "restore", "update", "create"}
WritePcs == {"restore", "update", "create"}

InUpsert(r, e) == r.pc \in UpsertPcs /\ r.mapped.external_id = e

\* r holds the result of an upsert that has returned.
Returned(r) == r.res.kind = "upsert"

\* hist after a remote call of an upsert of e failed.
HistFail(e) == [hist EXCEPT ![e].fail = TRUE]

\* hist after an upsert of e returned res.
HistReturn(e, res) ==
    IF res.ok /\ hist[e].first = 0 THEN [hist EXCEPT ![e].first = res.item_id] ELSE hist

\* 1 for the first successful upsert of e, 2 for a later one.
Nth(e) == IF hist[e].first = 0 THEN 1 ELSE 2

(* --------------------------- batch endpoint --------------------------- *)

\* The errorhandler's answer to an exception that left the view function.
Unhandled(e) == [NoResp EXCEPT !.status = 500, !.error = e]

\* list_bookings(limit, skip): take = max(1, limit), from offset max(0, skip).
Window(skip, limit) ==
    LET take == IF limit < 1 THEN 1 ELSE limit
    IN SubSeq(Feed, skip + 1, Min(skip + take, Len(Feed)))

\* The fallback request: pageSize = max(1, limit), pageNumber = skip // pageSize + 1.
PageWindow(skip, limit) ==
    LET page_size == IF limit < 1 THEN 1 ELSE limit
        page_number == (skip \div page_size) + 1
    IN SubSeq(Feed, (page_number - 1) * page_size + 1,
              Min(page_number * page_size, Len(Feed)))

\* list_bookings' reading of the reply body around the bookings found:
\*   "list"   [...]                          -> data.get raises, unless the list
\*            is empty (falsy): data = {}, items = []
\*   "items"  {"items": [...]}               -> the list, or, when it is empty
\*            (falsy), the values of the body itself: [[]]
\*   "count"  {"count": n, "items": [...]}   -> the list, or [0, []]
ListRaises(envelope, window) == envelope = "list" /\ window # << >>

Normalise(envelope, window) ==
    IF window # << >> THEN window
    ELSE CASE envelope = "list"  -> << >>
           [] envelope = "items" -> << BkScalar >>
           [] envelope = "count" -> << BkScalar, BkScalar >>

\* Lines 710-719: the response, with the debug sample mapped once more.
\* debug is the request's debug=1 parameter, which no earlier line reads.
Respond(r, debug) ==
    IF debug /\ r.bookings # << >> /\ MapRaises(r.bookings[1])
    THEN [r EXCEPT !.pc = "done", !.resp = Unhandled("AttributeError")]
    ELSE [r EXCEPT !.pc = "done",
                   !.resp = [NoResp EXCEPT !.status = 200, !.ok = TRUE,
                                           !.count = Len(r.results),
                                           !.processed = r.processed,
                                           !.next_skip = r.skip + r.processed]]

\* Lines 706-708 and the loop header: after an item, compare the elapsed time
\* with max_sec and break, else go on with the next booking if there is one.
AfterItem(r, debug) ==
    IF r.el > r.max_sec THEN Respond([r EXCEPT !.checked = r.el, !.cut = TRUE], debug)
    ELSE IF r.idx < Len(r.bookings) THEN [r EXCEPT !.checked = r.el, !.pc = "item"]
    ELSE Respond([r EXCEPT !.checked = r.el], debug)

\* The caller's lines after _safe_upsert returned res: the webhook answers
\* (line 652), the batch loop records the outcome (lines 701-702, 706-708).
Return(r, res, debug) ==
    IF r.kind = "webhook"
    THEN [r EXCEPT !.res = res, !.pc = "done",
                   !.resp = [NoResp EXCEPT !.status = 200, !.ok = TRUE, !.result = res]]
    ELSE AfterItem([r EXCEPT !.res = res, !.results = Append(@, res),
                             !.processed = @ + 1], debug)

\* Time a remote call of r can take, in ticks of the request's clock.
Ticks(r) == IF r.kind = "batch" /\ r.el < MaxEl THEN {0, 1} ELSE {0}

(* ------------------------------ actions ------------------------------- *)

Truthy(bk) == bk.kind # "empty"

\* booking = payload.get("booking") or payload
Unwrap(wrapped, body) ==
    IF ~wrapped THEN body
    ELSE IF Truthy(body) THEN body ELSE BkWrapper

\* webhook_lodgify up to the call of upsert_item: lines 645-650.
ReceiveWebhook(p) ==
    /\ req[p].pc = "idle"
    /\ \E body \in Payloads \cup {BkEmpty, BkScalar}, wrapped \in BOOLEAN :
         LET booking == Unwrap(wrapped, body)
             r == [IdleReq EXCEPT !.kind = "webhook"]
             raises == (~wrapped /\ body.kind = "scalar") \/ MapRaises(booking)
         IN IF ~wrapped /\ ~Truthy(body)
            THEN /\ req' = [req EXCEPT ![p] = [r EXCEPT !.pc = "done",
                                 !.resp = [NoResp EXCEPT !.status = 400,
                                                         !.error = "No booking payload"]]]
                 /\ hist' = hist
            ELSE IF raises
            THEN /\ req' = [req EXCEPT ![p] = [r EXCEPT !.pc = "done",
                                 !.resp = Unhandled("AttributeError")]]
                 /\ hist' = hist
            ELSE /\ req' = [req EXCEPT ![p] = [r EXCEPT !.pc = "find",
                                                       !.mapped = Mapped(booking)]]
                 /\ hist' = hist
    /\ UNCHANGED << items, aside >>

\* lodgify_sync_all up to the loop: lines 688-696, list_bookings included.
SyncAllFetch(p) ==
    /\ req[p].pc = "idle"
    /\ \E skip \in 0..Len(Feed), limit \in 0..MaxLimit, max_sec \in 0..MaxBudget,
          debug \in BOOLEAN, reply \in {"ok", "fallback", "error"},
          envelope \in {"list", "items", "count"}, t \in 0..Min(1, MaxEl) :
         LET r == [IdleReq EXCEPT !.kind = "batch", !.skip = skip,
                                  !.max_sec = max_sec, !.el = t]
             window == IF reply = "fallback" THEN PageWindow(skip, limit)
                       ELSE Window(skip, limit)
             got == [r EXCEPT !.bookings = Normalise(envelope, window)]
         IN req' = [req EXCEPT ![p] =
                IF reply = "error" \/ ListRaises(envelope, window)
                THEN [r EXCEPT !.pc = "done", !.resp = Unhandled("Lodgify error")]
                ELSE IF got.bookings = << >> THEN Respond(got, debug)
                ELSE [got EXCEPT !.pc = "item"]]
    /\ UNCHANGED << items, hist, aside >>

\* One turn of the loop up to the call of find_item_by_external_id: lines
\* 697-699 and, when mapping raises, the handler of lines 703-708.
Item(p) ==
    LET r0 == req[p]
        bk == r0.bookings[r0.idx + 1]
        r == [r0 EXCEPT !.idx = @ + 1, !.mapped = NoMapped, !.found = NoFound,
                        !.res = NoResult, !.pre = {}, !.n0 = 0, !.nth = 0,
                        !.lookupMissing = FALSE, !.restoreFailed = FALSE,
                        !.failed = "", !.seen = {}]
    IN /\ r0.pc = "item"
       /\ IF MapRaises(bk)
          THEN /\ \E debug \in BOOLEAN :
                    req' = [req EXCEPT ![p] =
                      IF HandlerRaises(bk)
                      THEN [r EXCEPT !.pc = "done", !.resp = Unhandled("AttributeError")]
                      ELSE AfterItem([r EXCEPT !.results = Append(@, Raised)], debug)]
               /\ hist' = hist
          ELSE /\ req' = [req EXCEPT ![p] = [r EXCEPT !.pc = "find", !.mapped = Mapped(bk)]]
               /\ hist' = hist
       /\ UNCHANGED << items, aside >>

\* Replies of the Monday API to one call: _gql returns the data, or raises on
\* a non-200 status ("http") or on an "errors" member ("gql").
Replies == {"ok", "http", "gql"}

ErrorOf(reply) == IF reply = "http" THEN "Monday HTTP" ELSE "Monday GQL error"

\* Lines 663-676 with the test of line 663 lost: every booking is created.
NextCallCreateOnly(found) == "create"

\* Lines 663-676: the call that follows the lookup.
NextCall(found) ==
    IF found = NoFound THEN "create"
    ELSE IF found.state = "archived" THEN "restore" ELSE "update"

\* _safe_upsert, line 662: the lookup.  A "gql" reply to it is the board
\* reporting that the reservation-id column does not exist.
Find(p) ==
    LET r0 == req[p]
        e == r0.mapped.external_id
    IN /\ r0.pc = "find"
       /\ \E reply \in Replies, t \in Ticks(r0), debug \in BOOLEAN :
            LET r == [r0 EXCEPT !.el = @ + t, !.pre = ActiveOf(e), !.n0 = Len(items)]
            IN IF reply # "ok"
               THEN /\ req' = [req EXCEPT ![p] =
                           Return([r EXCEPT !.lookupMissing = (reply = "gql"), !.failed = "find"],
                                  Failed(ErrorOf(reply)), debug)]
                    /\ hist' = HistFail(e)
               ELSE /\ \E page \in LookupPages(e) :
                         LET found == PickFound(page)
                         IN req' = [req EXCEPT ![p] =
                                [r EXCEPT !.found = found, !.pc = NextCall(found),
                                          !.seen = {page[k] : k \in 1..Len(page)}]]
                    /\ hist' = hist
       /\ UNCHANGED << items, aside >>

\* Lines 666-671: restore_item; its exception is logged and dropped.
Restore(p) ==
    LET r0 == req[p]
        e == r0.mapped.external_id
    IN /\ r0.pc = "restore"
       /\ UNCHANGED aside
       /\ \E reply \in Replies, t \in Ticks(r0) :
            LET r == [r0 EXCEPT !.el = @ + t, !.pc = "update"]
            IN IF reply = "ok"
               THEN /\ items' = [items EXCEPT ![r0.found.id].state = "active"]
                    /\ req' = [req EXCEPT ![p] = r]
                    /\ hist' = hist
               ELSE /\ items' = items
                    /\ req' = [req EXCEPT ![p] = [r EXCEPT !.restoreFailed = TRUE]]
                    /\ hist' = HistFail(e)

\* Lines 672-674: update_item and the updated result, or the handler of 680-682.
Update(p) ==
    LET r0 == req[p]
        e == r0.mapped.external_id
    IN /\ r0.pc = "update"
       /\ UNCHANGED aside
       /\ \E reply \in Replies, t \in Ticks(r0), debug \in BOOLEAN :
            LET r == [r0 EXCEPT !.el = @ + t, !.nth = Nth(e)]
            IN IF reply = "ok"
               THEN /\ items' = [items EXCEPT ![r0.found.id].cols = r0.mapped.column_values]
                    /\ req' = [req EXCEPT ![p] = Return(r, Updated(r0.found.id), debug)]
                    /\ hist' = HistReturn(e, Updated(r0.found.id))
               ELSE /\ items' = items
                    /\ req' = [req EXCEPT ![p] =
                           Return([r EXCEPT !.failed = "update"], Failed(ErrorOf(reply)), debug)]
                    /\ hist' = HistFail(e)

\* Lines 676-679: create_item and the created result, or the handler of 680-682.
Create(p) ==
    LET r0 == req[p]
        e == r0.mapped.external_id
        new_id == Len(items) + 1
    IN /\ r0.pc = "create"
       /\ UNCHANGED aside
       /\ Len(items) < MaxItems
       /\ \E reply \in Replies, t \in Ticks(r0), debug \in BOOLEAN :
            LET r == [r0 EXCEPT !.el = @ + t, !.nth = Nth(e)]
            IN IF reply = "ok"
               THEN /\ items' = Append(items, [cols |-> r0.mapped.column_values,
                                                state |-> "active"])
                    /\ req' = [req EXCEPT ![p] = Return(r, Created(new_id), debug)]
                    /\ hist' = HistReturn(e, Created(new_id))
               ELSE /\ items' = items
                    /\ req' = [req EXCEPT ![p] =
                           Return([r EXCEPT !.failed = "create"], Failed(ErrorOf(reply)), debug)]
                    /\ hist' = HistFail(e)

\* The response has been sent; the worker is free for the next request.
Finish(p) ==
    /\ req[p].pc = "done"
    /\ req' = [req EXCEPT ![p] = IdleReq]
    /\ UNCHANGED << items, hist, aside >>

\* A user of the board archives an item (the state restore_item undoes).
Archive(i) ==
    /\ items[i].state = "active"
    /\ items' = [items EXCEPT ![i].state = "archived"]
    /\ hist' = HistFail(items[i].cols.rid)
    /\ UNCHANGED << req, aside >>

\* One worker process: requests are served one after another.
Next ==
    \/ ReceiveWebhook("w1")
    \/ SyncAllFetch("w1")
    \/ Item("w1")
    \/ Find("w1")
    \/ Restore("w1")
    \/ Update("w1")
    \/ Create("w1")
    \/ Finish("w1")
    \/ \E i \in ItemIds : Archive(i)

Spec == Init /\ [][Next]_vars

\* Two worker processes that receive webhooks at the same time.
NextConc ==
    \/ \E p \in Procs : ReceiveWebhook(p)
    \/ \E p \in Procs : Find(p)
    \/ \E p \in Procs : Restore(p)
    \/ \E p \in Procs : Update(p)
    \/ \E p \in Procs : Create(p)
    \/ \E p \in Procs : Finish(p)
    \/ \E i \in ItemIds : Archive(i)

SpecConc == Init /\ [][NextConc]_vars

(* ---------------------------- client layer ---------------------------- *)

\* What one HTTP request to a remote API comes to: "ok" is 200 with the data,
\* "gql" is Monday's 200 with an "errors" member, "timeout" is no reply within
\* timeout=45 (requests raises), the others are the status of the reply.
Transient == {"timeout", "429", "503"}
Permanent == {"400", "401", "404", "gql"}

MondayReplies == {"ok", "gql", "timeout", "429", "503", "400", "401"}
LodgifyReplies == {"ok", "timeout", "429", "503", "400", "401", "404"}

\* A finished client call: the replies to the HTTP requests it made, in
\* order, and whether it returned or raised.
Call(api, replies, raised) == [api |-> api, replies |-> replies, raised |-> raised]

\* MondayClient._gql: one session.post; raises on a timeout, on a status other
\* than 200 and on an "errors" member, else returns the data.
gql(reply) == Call("monday", << reply >>, reply # "ok")

\* LodgifyClient.list_bookings: one session.get; on 400 or 404 a second get
\* with pageSize/pageNumber parameters; raises when the last reply is not ok.
list_bookings(first, second) ==
    IF first \in {"400", "404"}
    THEN Call("lodgify", << first, second >>, second # "ok")
    ELSE Call("lodgify", << first >>, first # "ok")

\* find_item_by_external_id, restore_item, create_item, update_item: each is
\* one call of _gql.
GqlCall ==
    /\ Len(calls) < MaxCalls
    /\ \E reply \in MondayReplies : calls' = Append(calls, gql(reply))
    /\ UNCHANGED << items, req, hist, mp >>

ListCall ==
    /\ Len(calls) < MaxCalls
    /\ \E first \in LodgifyReplies, second \in LodgifyReplies :
         calls' = Append(calls, list_bookings(first, second))
    /\ UNCHANGED << items, req, hist, mp >>

NextClient ==
    \/ GqlCall
    \/ ListCall

\* The two clients followed call by call, apart from the handlers.
SpecClient == Init /\ [][NextClient]_vars

(* -------------------------- mapper and schema ------------------------- *)

\* Option sets the Source dropdown of the board can have.
BoardLabelSets == {{"Booking.com"}, {"Booking.com", "Airbnb"}}

\* A booking handed to the sync on day 1: ALLOWED_SOURCE_LABELS as configured,
\* the board's dropdown options as they are, nothing mapped or stored yet.
GivenMp(b, allowed, labels) ==
    [phase |-> "given", bk |-> b, today |-> 1, allowed |-> allowed, labels |-> labels,
     out |-> None, stored |-> None]

InitMap ==
    /\ items = << >>
    /\ req = [p \in Procs |-> IdleReq]
    /\ hist = [e \in ExtIds |-> NoHist]
    /\ calls = << >>
    /\ mp \in {GivenMp(b, allowed, labels) :
                 b \in Bookings, allowed \in AllowedSets, labels \in BoardLabelSets}

\* mapped = map_booking_to_monday(bk): lines 650 and 699.
MapBooking ==
    /\ mp.phase = "given"
    /\ mp' = IF Raises(mp.bk)
             THEN [mp EXCEPT !.phase = "raised", !.out = None]
             ELSE [mp EXCEPT !.phase = "mapped",
                             !.out = map_booking_to_monday(mp.bk, mp.today, mp.allowed)]
    /\ UNCHANGED << items, req, hist, calls >>

\* create_item / update_item carrying the mapped column values.  The board
\* takes a dropdown value only when its label is one of the column's options
\* (the mutations do not ask for missing labels to be created), and nothing
\* in the program changes the options.
WriteColumns ==
    LET cv == mp.out.column_values
        accepted == \A v \in cv.source : v.labels[1] \in mp.labels
    IN /\ mp.phase = "mapped"
       /\ mp' = IF accepted THEN [mp EXCEPT !.phase = "written", !.stored = cv]
                ELSE [mp EXCEPT !.phase = "rejected"]
       /\ UNCHANGED << items, req, hist, calls >>

\* The same booking is synced again on the next day.
NextDay ==
    /\ mp.phase \in {"raised", "written", "rejected"}
    /\ mp.today <= MaxDay
    /\ mp' = [mp EXCEPT !.phase = "given", !.today = @ + 1]
    /\ UNCHANGED << items, req, hist, calls >>

NextMap ==
    \/ MapBooking
    \/ WriteColumns
    \/ NextDay

\* One booking mapped and written day after day, apart from the handlers.
SpecMap == InitMap /\ [][NextMap]_vars

(* ------------------------------- claims ------------------------------- *)

\* C1: from a board with no record for an external id, with every remote call
\* succeeding and nobody else writing its record, the first upsert of that id
\* returns created, every later one returns updated, and the board never
\* holds two active records for the id.
C1_IdempotentUpsert ==
    \A e \in ExtIds : ~hist[e].fail =>
        /\ Cardinality(ActiveOf(e)) <= 1
        /\ \A p \in Procs :
             LET r == req[p]
             IN (Returned(r) /\ r.res.ok /\ r.mapped.external_id = e) =>
                  /\ r.nth = 1 => (r.res.created /\ ~r.res.updated)
                  /\ r.nth = 2 => (r.res.updated /\ ~r.res.created)

\* A second upsert of an id, after a first that created its record, has
\* returned updated with no call failed in between.
C1_Witness ==
    \E p \in Procs :
        LET r == req[p]
            e == r.mapped.external_id
        IN /\ Returned(r) /\ r.res.ok /\ r.nth = 2 /\ r.res.updated
           /\ ~hist[e].fail
           /\ Cardinality(ActiveOf(e)) = 1

\* C2: an upsert that finds an active record for its external id returns
\* updated (not created) with that record's id, leaves the number of records
\* as it was and the record holding the new column values; and every
\* successful upsert of an external id returns the same item id.
C2_UpdateInPlace ==
    \A p \in Procs :
        LET r == req[p]
            e == r.mapped.external_id
        IN (Returned(r) /\ r.res.ok) =>
             /\ r.res.item_id = hist[e].first
             /\ r.pre # {} =>
                  /\ r.res.updated /\ ~r.res.created
                  /\ r.res.item_id \in r.pre
                  /\ Len(items) = r.n0
                  /\ items[r.res.item_id].cols = r.mapped.column_values

\* An upsert with changed column values has updated the active record that an
\* earlier upsert created.
C2_Witness ==
    \E p \in Procs :
        LET r == req[p]
            e == r.mapped.external_id
        IN /\ Returned(r) /\ r.res.updated /\ r.nth = 2
           /\ r.pre = {r.res.item_id}
           /\ r.res.item_id = hist[e].first
           /\ r.mapped.column_values.status = "Cancelled"
           /\ items[r.res.item_id].cols.status = "Cancelled"

\* C3: an archived record is restored before it is updated, and when the
\* restore call fails the upsert creates a new record instead of updating the
\* record that is still archived.
C3_RestoreFailureCreates ==
    \A p \in Procs :
        LET r == req[p]
        IN /\ (r.pc = "update" /\ r.found.state = "archived") => ~r.restoreFailed
           /\ (Returned(r) /\ r.res.ok /\ r.restoreFailed) => r.res.created

\* C4: a lookup that fails because the reservation-id column is missing is
\* treated as "not found": the upsert creates a record and returns ok.
C4_MissingColumnCreates ==
    \A p \in Procs :
        LET r == req[p]
        IN (Returned(r) /\ r.lookupMissing) => (r.res.ok /\ r.res.created)

\* C5: once the upserts of an external id have all completed, none of their
\* calls having failed, the board holds at most one active record for it,
\* however the upserts of two requests interleaved.
C5_AtMostOneActive ==
    \A e \in ExtIds :
        (~hist[e].fail /\ \A p \in Procs : ~InUpsert(req[p], e)) =>
            Cardinality(ActiveOf(e)) <= 1

\* C6: no restore, update or create call is issued for a booking whose
\* external id is empty, and no record of the board has an empty id.
C6_NoWriteForEmptyId ==
    /\ \A p \in Procs : req[p].pc \in WritePcs => req[p].mapped.external_id # ""
    /\ \A i \in ItemIds : items[i].cols.rid # ""

\* A batch request whose loop has begun and whose response has been sent.
BatchDone(r) == r.kind = "batch" /\ r.pc = "done" /\ r.idx >= 1

\* C7: a booking whose mapping or upsert fails is recorded as that booking's
\* outcome and does not abort the batch: the run answers 200 with one outcome
\* per booking attempted, and unless the time budget cut it short it has
\* attempted every booking of the page.
C7_ItemFailureNeverAborts ==
    \A p \in Procs :
        LET r == req[p]
        IN BatchDone(r) =>
             /\ r.resp.status = 200
             /\ r.resp.count = r.idx
             /\ Len(r.results) = r.idx
             /\ ~r.cut => r.idx = Len(r.bookings)

\* C8: next_skip is the starting skip plus the number of bookings the loop
\* has handled, failed ones included.
C8_CursorCountsHandled ==
    \A p \in Procs :
        LET r == req[p]
        IN (BatchDone(r) /\ r.resp.status = 200) => r.resp.next_skip = r.skip + r.idx

\* C9: the elapsed time is compared with max_sec only after an item has
\* finished; once a comparison has found it over the budget no further
\* booking is started; and a run the budget cut short still answers 200 with
\* ok and its cursor.
C9_CooperativeBudget ==
    \A p \in Procs :
        LET r == req[p]
        IN r.kind = "batch" =>
             /\ r.checked # -1 => r.idx >= 1
             /\ (r.pc \in UpsertPcs \cup {"item"} /\ r.checked # -1) =>
                    r.checked <= r.max_sec
             /\ r.cut => (r.pc = "done" /\ r.checked > r.max_sec)
             /\ (r.pc = "done" /\ r.cut) =>
                    /\ r.resp.status = 200 /\ r.resp.ok
                    /\ r.resp.next_skip = r.skip + r.processed

\* C10: the webhook answers 200 only when the upsert succeeded, 400 when no
\* booking payload is present, and a non-2xx status with the error message
\* whenever mapping raised or the upsert's outcome is ok = false.
C10_WebhookFailureNon2xx ==
    \A p \in Procs :
        LET r == req[p]
        IN (r.kind = "webhook" /\ r.pc = "done") =>
             /\ r.resp.status \in {200, 400, 500}
             /\ r.resp.status = 200 => (Returned(r) /\ r.res.ok)
             /\ r.resp.status = 400 => ~Returned(r)
             /\ (Returned(r) /\ ~r.res.ok) =>
                    (r.resp.status \notin 200..299 /\ r.resp.error # "")

\* C11: a call that fails on a transient transport failure (timeout, 429,
\* 5xx) has been tried more than once before it raises, and a call whose
\* first reply is a permanent rejection (another 4xx, a GraphQL error) raises
\* after that single attempt.
C11_TransientRetried ==
    \A k \in 1..Len(calls) :
        LET c == calls[k]
            n == Len(c.replies)
        IN /\ (c.raised /\ c.replies[n] \in Transient) => n >= 2
           /\ c.replies[1] \in Permanent => (c.raised /\ n = 1)

\* C12: once a booking that classifies to Airbnb (an allowed label) has been
\* synced, the board's Source dropdown has the Airbnb option and the stored
\* column values carry the source as the label set with that one label.
C12_LabelEnsured ==
    (/\ mp.phase \in {"written", "rejected"}
     /\ label_for_source(mp.bk.source, mp.bk.source_text) = Str("Airbnb")
     /\ "Airbnb" \in mp.allowed)
        => /\ "Airbnb" \in mp.labels
           /\ mp.phase = "written"
           /\ mp.stored.source = {[labels |-> << "Airbnb" >>]}

\* The mapper has returned column values for the booking on day mp.today.
IsMapped == mp.phase \in {"mapped", "written", "rejected"}

\* Both dates of the booking are present and parseable, as calendar days.
HasDates(b) == b.arrival.form \notin {"absent", "bad"} /\ b.departure.form \notin {"absent", "bad"}

\* check_in < check_out, both present.
StayGiven(b) == HasDates(b) /\ b.arrival.day < b.departure.day

\* Position of a mapped stay label in the order Upcoming, In house, Completed
\* (0: no label written).
StayRank(out) ==
    IF out.column_values.stay_status = {[label |-> "Upcoming"]} THEN 1
    ELSE IF out.column_values.stay_status = {[label |-> "In house"]} THEN 2
    ELSE IF out.column_values.stay_status = {[label |-> "Completed"]} THEN 3
    ELSE 0

\* C13: for check_in < check_out the stay label mapped on day today is
\* Upcoming when today < check_in, In house when check_in <= today <
\* check_out, Completed otherwise; and from one day's mapping to the next
\* day's the label never moves backwards in that order.
C13_Lifecycle ==
    /\ [](IsMapped /\ StayGiven(mp.bk) =>
            mp.out.column_values.stay_status =
                {[label |-> IF mp.today < mp.bk.arrival.day THEN "Upcoming"
                            ELSE IF mp.today < mp.bk.departure.day THEN "In house"
                            ELSE "Completed"]})
    /\ [][(mp.out # None /\ mp'.out # None /\ StayGiven(mp.bk)) =>
             (StayRank(mp.out) >= 1 /\ StayRank(mp'.out) >= StayRank(mp.out))]_vars

\* A stay from day 2 to day 3 has been mapped on days 1, 2 and 3 and is
\* mapped Completed on day 4.
C13_Witness ==
    /\ mp.phase = "mapped" /\ mp.today = 4
    /\ mp.bk.arrival = RawDate("iso", 2) /\ mp.bk.departure = RawDate("iso", 3)
    /\ mp.out.column_values.stay_status = {[label |-> "Completed"]}

\* C14: a booking whose status maps to Cancelled is never mapped Upcoming or
\* In house, and with both dates present its stay label is Completed wherever
\* today lies relative to them.
C14_CancelledCompleted ==
    (IsMapped /\ label_for_status(mp.bk.status) = "Cancelled") =>
        /\ StayRank(mp.out) \notin {1, 2}
        /\ HasDates(mp.bk) => StayRank(mp.out) = 3

\* C15: nights is check_out - check_in in days when both dates are present
\* and check_out >= check_in, is left out of the column values in every other
\* case, and is never negative.
C15_Nights ==
    IsMapped =>
        LET b == mp.bk
            nights == mp.out.column_values.nights
        IN /\ nights = IF HasDates(b) /\ b.departure.day >= b.arrival.day
                       THEN {Num(b.departure.day - b.arrival.day)}
                       ELSE {}
           /\ \A v \in nights : v.num >= 0

\* The date columns of the column values.
DateColumns == {"check_in", "check_out", "created_at", "updated_at", "canceled_at"}

\* The raw value of the payload a date column is read from.
RawOf(b, c) ==
    CASE c = "check_in" -> b.arrival
      [] c = "check_out" -> b.departure
      [] c = "created_at" -> b.created_at
      [] c = "updated_at" -> b.updated_at
      [] c = "canceled_at" -> b.canceled_at

\* C16: no column is written with a null value, and a date column whose
\* source date is missing or unparseable is left out of the column values.
C16_AbsentOmitted ==
    IsMapped =>
        \A c \in DateColumns :
            /\ \A v \in mp.out.column_values[c] : v.date # None
            /\ RawOf(mp.bk, c).form \in {"absent", "bad"} => mp.out.column_values[c] = {}

\* The classified source of the booking is an allowed label.
Enumerated(b, allowed) ==
    /\ label_for_source(b.source, b.source_text) # None
    /\ label_for_source(b.source, b.source_text).str \in allowed

\* C17 as stated: in the column values mapped for a booking the source is
\* written in exactly one way: the dropdown with the one allowed label and no
\* fallback text, or no dropdown and the raw source text in the fallback
\* column.
C17_SourceExactlyOneWay ==
    IsMapped =>
        LET cv == mp.out.column_values
            label == label_for_source(mp.bk.source, mp.bk.source_text)
        IN /\ (cv.source = {}) # (cv.source_text = {})
           /\ IF Enumerated(mp.bk, mp.allowed)
              THEN cv.source = {[labels |-> << label.str >>]} /\ cv.source_text = {}
              ELSE cv.source = {} /\ cv.source_text = {[text |-> mp.bk.source \o mp.bk.source_text]}

\* C17 amended: the column values the mapper returns never hold both source
\* columns: the dropdown alone, with the one allowed label; else the fallback
\* text alone, holding the raw source text when that is not empty; else
\* neither.
C17_SourceOneWayOrNone ==
    IsMapped =>
        LET cv == mp.out.column_values
            label == label_for_source(mp.bk.source, mp.bk.source_text)
            raw == mp.bk.source \o mp.bk.source_text
        IN /\ cv.source = {} \/ cv.source_text = {}
           /\ IF Enumerated(mp.bk, mp.allowed)
              THEN cv.source = {[labels |-> << label.str >>]} /\ cv.source_text = {}
              ELSE /\ cv.source = {}
                   /\ cv.source_text = IF raw = << >> THEN {} ELSE {[text |-> raw]}

\* A booking whose source classifies to a label that is not allowed has been
\* mapped: its text is in the fallback column and the dropdown is not written.
C17_Witness ==
    /\ IsMapped
    /\ mp.bk.source = << "Airbnb" >> /\ mp.bk.source_text = << >>
    /\ "Airbnb" \notin mp.allowed
    /\ mp.out.column_values.source = {}
    /\ mp.out.column_values.source_text = {[text |-> << "Airbnb" >>]}

\* C18: the mapper never raises: whatever the shape of the payload's fields
\* it returns a record, with the booking id and the status extracted as usual.
C18_ExtractionNeverRaises ==
    (IsMapped \/ mp.phase = "raised") =>
        /\ mp.phase # "raised"
        /\ mp.out # None
        /\ mp.out.external_id = ResId(mp.bk)
        /\ mp.out.column_values.status = label_for_status(mp.bk.status)

\* C19: an upsert that has returned gives a well-formed outcome: with ok
\* exactly one of created and updated, the id of an item of the board and no
\* error; without ok neither flag, no item id and a non-empty error.  A
\* failed lookup, create or update gives the outcome without ok, and the
\* outcome reaches the caller (the webhook's answer, the batch's results).
C19_WellFormedOutcome ==
    \A p \in Procs :
        LET r == req[p]
        IN /\ r.failed # "" => (Returned(r) /\ ~r.res.ok)
           /\ Returned(r) =>
                /\ r.res.ok =>
                     /\ r.res.created # r.res.updated
                     /\ r.res.item_id \in ItemIds
                     /\ r.res.error = ""
                     /\ r.failed = ""
                /\ ~r.res.ok =>
                     /\ ~r.res.created /\ ~r.res.updated
                     /\ r.res.item_id = 0
                     /\ r.res.error # ""
                     /\ r.failed # ""
                /\ r.kind = "webhook" => r.resp.result = r.res
                /\ r.kind = "batch" => r.results[Len(r.results)] = r.res

\* An upsert whose update call failed after a successful lookup has returned
\* ok = false with the error.
C19_Witness ==
    \E p \in Procs :
        LET r == req[p]
        IN /\ Returned(r) /\ r.failed = "update"
           /\ r.found # NoFound
           /\ ~r.res.ok /\ r.res.error = "Monday HTTP"

\* C20: when the page of the lookup held a record that was active, the
\* record selected is one of those, no restore is issued and the update
\* returns its id; a restore is about to be issued only for a selected record
\* found archived; and the restore and update calls of an upsert change no
\* record but the selected one.
C20_ActivePreferred ==
    /\ [](\A p \in Procs :
            LET r == req[p]
            IN /\ (r.found # NoFound /\ r.seen \cap r.pre # {}) =>
                    /\ r.found.id \in r.seen \cap r.pre
                    /\ r.found.state = "active"
                    /\ r.pc # "restore"
                    /\ (Returned(r) /\ r.res.ok) =>
                           (r.res.updated /\ r.res.item_id = r.found.id)
               /\ r.pc = "restore" => (r.found.state = "archived" /\ r.found.id \in r.seen))
    /\ [][\A p \in Procs :
            (req[p].pc \in {"restore", "update"} /\ req'[p] # req[p]) =>
                \A i \in ItemIds : i # req[p].found.id => items'[i] = items[i]]_vars

\* An upsert whose lookup page held an active and an archived record of the
\* booking has updated the active one, the other still being archived.
C20_Witness ==
    \E p \in Procs :
        LET r == req[p]
        IN /\ Returned(r) /\ r.res.updated
           /\ Cardinality(r.seen) = 2
           /\ r.seen \cap r.pre = {r.res.item_id}
           /\ \E i \in r.seen \ r.pre : items[i].state = "archived"

====
